---------------------------- MODULE Spec2Model ----------------------------
(* A model of the two benchmark programs of the repository:               *)
(*   bench/simdjson_bench.cpp   the NDJSON filter tool                     *)
(*   bench/tokenizer_bench.cpp  the tokenizer throughput tool              *)
(* A byte is a one-character string, a buffer a sequence of bytes, and    *)
(* byte offsets are 0-based as in the source (buffer[o] is buf[o + 1]).    *)
EXTENDS Integers, Sequences, FiniteSets, TLC

VARIABLES
    pc,          \* position of main()
    argv,        \* argv[1..argc-1], each argument a sequence of bytes
    disk,        \* the bytes of the one file that exists on disk
    filename, field, threshold, count_only, quiet,    \* simdjson_bench options
    json,        \* the loaded padded_string
    line_idx,    \* simdjson_bench: result of build_line_index
    documents,   \* byte ranges of the documents the open stream will yield
    it,          \* document_stream iterator: documents consumed so far
    total, matched, line_no, out_buf,                  \* simdjson_bench loop
    oob_read,    \* an element of line_idx was read at or past its size
    stdout, stderr, exit_code,
    open_failed, \* some iterate_many call returned an error
    iters, iter, docs, total_docs, total_time, run_times,  \* tokenizer_bench
    report,      \* tokenizer_bench: the numbers of the report
    ub,          \* the run executed an operation with undefined behaviour
    loads, warmups, parsers  \* counts of file loads, warm-up passes, parsers built

vars == <<pc, argv, disk, filename, field, threshold, count_only, quiet, json,
          line_idx, documents, it, total, matched, line_no, out_buf, oob_read,
          stdout, stderr, exit_code, open_failed, iters, iter, docs,
          total_docs, total_time, run_times, report, ub, loads, warmups,
          parsers>>

-----------------------------------------------------------------------------
(* Bounds of the model.                                                    *)

\* longest raw byte buffer given to build_line_index on its own
MaxLen == 5
\* most record segments in an input file of the filter tool
MaxSegs == 3
\* most record segments in an input file of the tokenizer tool
MaxTokSegs == 2
\* largest elapsed time (in clock ticks) one timed pass can take
MaxElapsed == 2

-----------------------------------------------------------------------------
(* Bytes and C-string helpers.                                             *)

NL == "\n"
SP == " "
QUOTE == "\""
NullPtr == <<>>

Digits == <<"0", "1", "2", "3", "4", "5", "6", "7", "8", "9">>

IsDigit(c) == \E k \in 1..10 : Digits[k] = c

DigitVal(c) == (CHOOSE k \in 1..10 : Digits[k] = c) - 1

\* value of the longest prefix of digits of s, continuing from acc
RECURSIVE DigitsPrefix(_, _)
DigitsPrefix(s, acc) ==
    IF s = <<>> \/ ~IsDigit(Head(s)) THEN acc
    ELSE DigitsPrefix(Tail(s), 10 * acc + DigitVal(Head(s)))

\* atoi / atof on an argument without fraction or exponent: optional sign,
\* then the longest prefix of digits; 0 when there is none
StrToNum(s) ==
    IF s # <<>> /\ Head(s) = "-" THEN 0 - DigitsPrefix(Tail(s), 0)
    ELSE IF s # <<>> /\ Head(s) = "+" THEN DigitsPrefix(Tail(s), 0)
    ELSE DigitsPrefix(s, 0)

\* printf("%zu"): the decimal digits of n >= 0
RECURSIVE Decimal(_)
Decimal(n) ==
    IF n < 10 THEN <<Digits[n + 1]>>
    ELSE Decimal(n \div 10) \o <<Digits[(n % 10) + 1]>>

\* buffer[s .. e), 0-based and end-exclusive
Slice(buf, s, e) == SubSeq(buf, s + 1, e)

RECURSIVE Concat(_)
Concat(ss) == IF ss = <<>> THEN <<>> ELSE Head(ss) \o Concat(Tail(ss))

\* all sequences over S of length at most n
SeqsUpTo(S, n) == UNION {[1..k -> S] : k \in 0..n}

-----------------------------------------------------------------------------
(* Inputs: command-line arguments and file contents.                       *)

ArgCount == <<"-", "-", "c", "o", "u", "n", "t">>
ArgQuiet == <<"-", "-", "q", "u", "i", "e", "t">>
ArgField == <<"-", "-", "f", "i", "e", "l", "d">>
ArgGt    == <<"-", "-", "g", "t">>
KeyAge   == <<"a", "g", "e">>
KeyId    == <<"i", "d">>
KeyZ     == <<"_", "_", "z", "_", "_">>
\* the one file that exists, and a name no file has
FileD    == <<"d">>
NoFile   == <<"x">>

\* the text {"key":value}
Doc(key, value) == <<"{", QUOTE>> \o key \o <<QUOTE, ":">> \o value \o <<"}">>

\* Record segments an input file is made of: a document and what follows it.
SegKinds ==
    { Doc(KeyAge, <<"2", "5">>) \o <<NL>>,           \* {"age":25}
      Doc(KeyAge, <<"3", "0">>) \o <<NL>>,           \* {"age":30}
      Doc(KeyAge, <<"3", "5">>) \o <<NL>>,           \* {"age":35}
      Doc(KeyId, <<"3", "5">>) \o <<NL>>,            \* {"id":35}: no "age"
      Doc(KeyAge, <<QUOTE, "x", QUOTE>>) \o <<NL>>,  \* {"age":"x"}: not a number
      Doc(KeyAge, <<>>) \o <<NL>>,                   \* {"age":}: malformed
      Doc(KeyAge, <<NL, "3", "5">>) \o <<NL>>,       \* one document on two lines
      Doc(KeyAge, <<"3", "5">>) \o <<SP>>,           \* next document on the same line
      Doc(KeyAge, <<"3", "5">>),                     \* no separator / no final newline
      <<NL>> }                                       \* a blank line

\* the files the filter tool is run on
FilterFiles == {Concat(ss) : ss \in SeqsUpTo(SegKinds, MaxSegs)}

TokSegKinds ==
    { Doc(KeyAge, <<"3", "5">>) \o <<NL>>,
      Doc(KeyId, <<"3", "5">>) \o <<SP>>,
      <<NL>> }

\* the files the tokenizer tool is run on
TokFiles == {Concat(ss) : ss \in SeqsUpTo(TokSegKinds, MaxTokSegs)}

\* the scenario input of the filter tool: ages 25, 35, 30, one per line
ScenarioFile ==
    Doc(KeyAge, <<"2", "5">>) \o <<NL>> \o Doc(KeyAge, <<"3", "5">>) \o <<NL>>
      \o Doc(KeyAge, <<"3", "0">>) \o <<NL>>

\* command lines of the filter tool
FilterArgvs ==
    { <<>>,
      <<FileD>>,
      <<NoFile>>,
      <<FileD, ArgCount>>,
      <<ArgQuiet, FileD>>,
      <<ArgQuiet, FileD, ArgCount>>,
      <<ArgCount, ArgQuiet, FileD>>,
      <<FileD, ArgGt, <<"2", "5">>>>,
      <<FileD, ArgField, KeyId>>,
      <<FileD, ArgGt, ArgQuiet>>,
      <<ArgCount, ArgGt>> }

\* command lines of the tokenizer tool
TokArgvs ==
    { <<>>,
      <<FileD>>,
      <<NoFile>>,
      <<FileD, <<"1">>>>,
      <<FileD, <<"2">>>>,
      <<FileD, <<"0">>>>,
      <<FileD, <<"-", "1">>>>,
      <<FileD, <<"a", "b", "c">>>> }

\* all raw byte buffers build_line_index is checked on by itself
RawBuffers == SeqsUpTo({NL, "a", "{"}, MaxLen)

-----------------------------------------------------------------------------
(* simdjson_bench.cpp: build_line_index.                                   *)

\* the for loop, from index i with line start s and the pairs found so far
RECURSIVE index_loop(_, _, _, _)
index_loop(data, i, s, idx) ==
    IF i > Len(data) THEN idx
    ELSE IF i = Len(data) \/ data[i + 1] = NL
         THEN index_loop(data, i + 1, i + 1,
                         IF i > s THEN Append(idx, <<s, i>>) ELSE idx)
         ELSE index_loop(data, i + 1, s, idx)

\* the same loop running while i < len: the last line is lost when the
\* buffer does not end in a newline
RECURSIVE index_loop_lt(_, _, _, _)
index_loop_lt(data, i, s, idx) ==
    IF i >= Len(data) THEN idx
    ELSE IF data[i + 1] = NL
         THEN index_loop_lt(data, i + 1, i + 1,
                            IF i > s THEN Append(idx, <<s, i>>) ELSE idx)
         ELSE index_loop_lt(data, i + 1, s, idx)

build_line_index_lt(data) == index_loop_lt(data, 0, 0, <<>>)

build_line_index(data) == index_loop(data, 0, 0, <<>>)

-----------------------------------------------------------------------------
(* The simdjson calls of both programs: iterate_many, the stream iterator  *)
(* and the lazy field lookup, as functions of the bytes of the buffer.     *)

IsSpace(c) == c = SP \/ c = NL

\* first offset >= p that holds no white space (Len(buf) when there is none)
RECURSIVE SkipSpace(_, _)
SkipSpace(buf, p) ==
    IF p >= Len(buf) \/ ~IsSpace(buf[p + 1]) THEN p ELSE SkipSpace(buf, p + 1)

\* first offset >= p that holds byte c (Len(buf) when there is none)
RECURSIVE Find(_, _, _)
Find(buf, p, c) ==
    IF p >= Len(buf) \/ buf[p + 1] = c THEN p ELSE Find(buf, p + 1, c)

\* stage 1 framing: the [start, end) ranges of the documents from offset p on
RECURSIVE Frame(_, _)
Frame(buf, p) ==
    LET b == SkipSpace(buf, p)
        e == Find(buf, b, "}")
    IN  IF b >= Len(buf) THEN <<>>
        ELSE IF e >= Len(buf) THEN <<[start |-> b, end |-> Len(buf)]>>
        ELSE <<[start |-> b, end |-> e + 1]>> \o Frame(buf, e + 1)

StripSpace(s) == SelectSeq(s, LAMBDA c : ~IsSpace(c))

\* doc[key].get(double): the top-level key of the document is looked up and
\* its value read as a number; err is "SUCCESS" or a simdjson error code
Lookup(buf, d, key) ==
    LET text == StripSpace(Slice(buf, d.start, d.end))
        k1   == Find(text, 0, QUOTE)
        k2   == Find(text, k1 + 1, QUOTE)
        col  == Find(text, k2 + 1, ":")
        name == Slice(text, k1 + 1, k2)
        val  == Slice(text, col + 1, Len(text) - 1)
    IN  IF k2 >= Len(text) \/ col >= Len(text) \/ text[Len(text)] # "}"
          THEN [err |-> "TAPE_ERROR", val |-> 0]
        ELSE IF name # key
          THEN [err |-> "NO_SUCH_FIELD", val |-> 0]
        ELSE IF val = <<>>
          THEN [err |-> "TAPE_ERROR", val |-> 0]
        ELSE IF \E j \in 1..Len(val) : ~IsDigit(val[j])
          THEN [err |-> "INCORRECT_TYPE", val |-> 0]
        ELSE [err |-> "SUCCESS", val |-> DigitsPrefix(val, 0)]

\* what iterate_many can return
OpenResults == {"SUCCESS", "MEMALLOC"}

-----------------------------------------------------------------------------
(* simdjson_bench.cpp: main.                                               *)

DefaultThreshold == 30

\* options as main declares them
DefaultOpts ==
    [filename |-> NullPtr, field |-> KeyAge, threshold |-> DefaultThreshold,
     count_only |-> FALSE, quiet |-> FALSE]

\* the argument loop with --quiet also switching count_only on
RECURSIVE parse_args_quiet_counts(_, _, _)
parse_args_quiet_counts(args, i, o) ==
    IF i > Len(args) THEN o
    ELSE IF args[i] = ArgCount
      THEN parse_args_quiet_counts(args, i + 1, [o EXCEPT !.count_only = TRUE])
    ELSE IF args[i] = ArgQuiet
      THEN parse_args_quiet_counts(args, i + 1,
                                   [o EXCEPT !.quiet = TRUE, !.count_only = TRUE])
    ELSE IF args[i] = ArgField /\ i + 1 <= Len(args)
      THEN parse_args_quiet_counts(args, i + 2, [o EXCEPT !.field = args[i + 1]])
    ELSE IF args[i] = ArgGt /\ i + 1 <= Len(args)
      THEN parse_args_quiet_counts(args, i + 2,
                                   [o EXCEPT !.threshold = StrToNum(args[i + 1])])
    ELSE IF Head(args[i]) # "-"
      THEN parse_args_quiet_counts(args, i + 1, [o EXCEPT !.filename = args[i]])
    ELSE parse_args_quiet_counts(args, i + 1, o)

\* the argument loop of main from argv[i] on (args[i] is argv[i], argc is
\* Len(args) + 1)
RECURSIVE parse_args(_, _, _)
parse_args(args, i, o) ==
    IF i > Len(args) THEN o
    ELSE IF args[i] = ArgCount
      THEN parse_args(args, i + 1, [o EXCEPT !.count_only = TRUE])
    ELSE IF args[i] = ArgQuiet
      THEN parse_args(args, i + 1, [o EXCEPT !.quiet = TRUE])
    ELSE IF args[i] = ArgField /\ i + 1 <= Len(args)
      THEN parse_args(args, i + 2, [o EXCEPT !.field = args[i + 1]])
    ELSE IF args[i] = ArgGt /\ i + 1 <= Len(args)
      THEN parse_args(args, i + 2, [o EXCEPT !.threshold = StrToNum(args[i + 1])])
    ELSE IF Head(args[i]) # "-"
      THEN parse_args(args, i + 1, [o EXCEPT !.filename = args[i]])
    ELSE parse_args(args, i + 1, o)

\* the comparison with >= in place of >
IsMatchGe(res, thr) == res.err = "SUCCESS" /\ res.val >= thr

\* ok && val > threshold
IsMatch(res, thr) == res.err = "SUCCESS" /\ res.val > thr

tokVars == <<iters, iter, docs, total_docs, total_time, run_times, report, ub,
             warmups, parsers>>

\* the argument loop and the check of the file name
FParseArgs ==
    /\ pc = "start"
    /\ LET o == parse_args(argv, 1, DefaultOpts)
       IN  /\ filename' = o.filename
           /\ field' = o.field
           /\ threshold' = o.threshold
           /\ count_only' = o.count_only
           /\ quiet' = o.quiet
           /\ IF o.filename = NullPtr
                THEN /\ stderr' = Append(stderr, "usage")
                     /\ exit_code' = 1
                     /\ pc' = "exit"
                ELSE /\ pc' = "load"
                     /\ UNCHANGED <<stderr, exit_code>>
    /\ UNCHANGED <<argv, disk, json, line_idx, documents, it, total, matched,
                   line_no, out_buf, oob_read, stdout, open_failed, loads>>
    /\ UNCHANGED tokVars

\* padded_string::load(filename)
FLoad ==
    /\ pc = "load"
    /\ IF filename = FileD
         THEN /\ json' = disk
              /\ loads' = loads + 1
              /\ pc' = "index"
              /\ UNCHANGED <<stderr, exit_code>>
         ELSE /\ stderr' = Append(stderr, "Error loading file")
              /\ exit_code' = 1
              /\ pc' = "exit"
              /\ UNCHANGED <<json, loads>>
    /\ UNCHANGED <<argv, disk, filename, field, threshold, count_only, quiet,
                   line_idx, documents, it, total, matched, line_no, out_buf,
                   oob_read, stdout, open_failed>>
    /\ UNCHANGED tokVars

\* line_idx = build_line_index(json.data(), file_size)
FBuildIndex ==
    /\ pc = "index"
    /\ line_idx' = build_line_index(json)
    /\ pc' = "open"
    /\ UNCHANGED <<argv, disk, filename, field, threshold, count_only, quiet,
                   json, documents, it, total, matched, line_no, out_buf,
                   oob_read, stdout, stderr, exit_code, open_failed, loads>>
    /\ UNCHANGED tokVars

\* parser.iterate_many(json, 1 << 20), and the loop's counters set to 0
FOpenStream ==
    /\ pc = "open"
    /\ \E r \in OpenResults :
         IF r = "SUCCESS"
           THEN /\ documents' = Frame(json, 0)
                /\ it' = 0
                /\ total' = 0
                /\ matched' = 0
                /\ line_no' = 0
                /\ out_buf' = <<>>
                /\ pc' = "loop"
                /\ UNCHANGED <<stderr, exit_code, open_failed>>
           ELSE /\ stderr' = Append(stderr, "iterate_many error")
                /\ exit_code' = 1
                /\ open_failed' = TRUE
                /\ pc' = "exit"
                /\ UNCHANGED <<documents, it, total, matched, line_no, out_buf>>
    /\ UNCHANGED <<argv, disk, filename, field, threshold, count_only, quiet,
                   json, line_idx, oob_read, stdout, loads>>
    /\ UNCHANGED tokVars

\* the element of the line index at position n; any pair when n is past the end
ReadLine(idx, n) == IF n < Len(idx) THEN idx[n + 1] ELSE <<0, 0>>

\* the loop body leaving the loop at the first document whose lookup fails
LoopBodyBreak(d) ==
    LET res == Lookup(json, d, field)
        hit == IsMatch(res, threshold)
        rd  == hit /\ ~count_only /\ ~quiet /\ line_no < Len(line_idx)
        ln  == ReadLine(line_idx, line_no)
    IN  IF res.err # "SUCCESS"
          THEN /\ it' = Len(documents)
               /\ UNCHANGED <<matched, out_buf, oob_read, total, line_no>>
          ELSE /\ matched' = IF hit THEN matched + 1 ELSE matched
               /\ out_buf' = IF rd THEN out_buf \o Slice(json, ln[1], ln[2]) \o <<NL>>
                             ELSE out_buf
               /\ oob_read' = (oob_read \/ (rd /\ line_no >= Len(line_idx)))
               /\ total' = total + 1
               /\ line_no' = line_no + 1
               /\ it' = it + 1

\* the loop body reading the line index without the test line_no < total_lines
LoopBodyNoGuard(d) ==
    LET res == Lookup(json, d, field)
        hit == IsMatch(res, threshold)
        rd  == hit /\ ~count_only /\ ~quiet
        ln  == ReadLine(line_idx, line_no)
    IN  /\ matched' = IF hit THEN matched + 1 ELSE matched
        /\ out_buf' = IF rd THEN out_buf \o Slice(json, ln[1], ln[2]) \o <<NL>>
                      ELSE out_buf
        /\ oob_read' = (oob_read \/ (rd /\ line_no >= Len(line_idx)))
        /\ total' = total + 1
        /\ line_no' = line_no + 1
        /\ it' = it + 1

\* the body of the benchmark loop on document d = *it, and ++it
LoopBody(d) ==
    LET res == Lookup(json, d, field)
        hit == IsMatch(res, threshold)
        rd  == hit /\ ~count_only /\ ~quiet /\ line_no < Len(line_idx)
        ln  == ReadLine(line_idx, line_no)
    IN  /\ matched' = IF hit THEN matched + 1 ELSE matched
        /\ out_buf' = IF rd THEN out_buf \o Slice(json, ln[1], ln[2]) \o <<NL>>
                      ELSE out_buf
        /\ oob_read' = (oob_read \/ (rd /\ line_no >= Len(line_idx)))
        /\ total' = total + 1
        /\ line_no' = line_no + 1
        /\ it' = it + 1

\* one iteration of the benchmark loop: it != stream.end()
FLoopStep ==
    /\ pc = "loop"
    /\ it < Len(documents)
    /\ LoopBody(documents[it + 1])
    /\ UNCHANGED <<pc, argv, disk, filename, field, threshold, count_only, quiet,
                   json, line_idx, documents, stdout, stderr, exit_code,
                   open_failed, loads>>
    /\ UNCHANGED tokVars

\* the loop ends (it == stream.end()); the output buffer is written and,
\* with count_only, the count is printed
FFlush ==
    /\ pc = "loop"
    /\ it = Len(documents)
    /\ stdout' = stdout
                 \o (IF ~count_only /\ ~quiet /\ out_buf # <<>> THEN out_buf ELSE <<>>)
                 \o (IF count_only THEN Decimal(matched) \o <<NL>> ELSE <<>>)
    /\ pc' = "report"
    /\ UNCHANGED <<argv, disk, filename, field, threshold, count_only, quiet,
                   json, line_idx, documents, it, total, matched, line_no,
                   out_buf, oob_read, stderr, exit_code, open_failed, loads>>
    /\ UNCHANGED tokVars

\* the report on standard error, and return 0
FReport ==
    /\ pc = "report"
    /\ stderr' = stderr \o <<"report",
                             IF count_only THEN "count"
                             ELSE IF quiet THEN "filter(no-output)"
                             ELSE "filter+output">>
    /\ exit_code' = 0
    /\ pc' = "done"
    /\ UNCHANGED <<argv, disk, filename, field, threshold, count_only, quiet,
                   json, line_idx, documents, it, total, matched, line_no,
                   out_buf, oob_read, stdout, open_failed, loads>>
    /\ UNCHANGED tokVars

InitCommon ==
    /\ filename = DefaultOpts.filename
    /\ field = DefaultOpts.field
    /\ threshold = DefaultOpts.threshold
    /\ count_only = DefaultOpts.count_only
    /\ quiet = DefaultOpts.quiet
    /\ line_idx = <<>>
    /\ documents = <<>>
    /\ it = 0
    /\ total = 0
    /\ matched = 0
    /\ line_no = 0
    /\ out_buf = <<>>
    /\ oob_read = FALSE
    /\ stdout = <<>>
    /\ stderr = <<>>
    /\ exit_code = -1
    /\ open_failed = FALSE
    /\ iters = 0
    /\ iter = 0
    /\ docs = 0
    /\ total_docs = 0
    /\ total_time = 0
    /\ run_times = <<>>
    /\ report = [best |-> 0, avg_num |-> 0, avg_den |-> 1, docs_per_iter |-> 0]
    /\ ub = FALSE
    /\ loads = 0
    /\ warmups = 0
    /\ parsers = 0

\* the filter tool started on a command line, with a file on disk
InitFilter ==
    /\ InitCommon
    /\ pc = "start"
    /\ json = <<>>
    /\ argv \in FilterArgvs
    /\ disk \in FilterFiles

NextFilter ==
    \/ FParseArgs
    \/ FLoad
    \/ FBuildIndex
    \/ FOpenStream
    \/ FLoopStep
    \/ FFlush
    \/ FReport

SpecFilter == InitFilter /\ [][NextFilter]_vars

\* build_line_index called on a raw buffer
InitIndex ==
    /\ InitCommon
    /\ argv = <<>>
    /\ disk \in RawBuffers
    /\ json = disk
    /\ pc = "index"

NextIndex == FBuildIndex

SpecIndex == InitIndex /\ [][NextIndex]_vars

-----------------------------------------------------------------------------
(* tokenizer_bench.cpp: main.                                              *)

DefaultIters == 5

filterVars == <<field, threshold, count_only, quiet, line_idx, total, matched,
                line_no, out_buf, oob_read>>

Min(S) == CHOOSE m \in S : \A x \in S : m <= x

Range(s) == {s[k] : k \in 1..Len(s)}

\* the check of argc, and the two arguments
TStart ==
    /\ pc = "start"
    /\ IF Len(argv) + 1 < 2
         THEN /\ stderr' = Append(stderr, "usage")
              /\ exit_code' = 1
              /\ pc' = "exit"
              /\ UNCHANGED <<filename, iters>>
         ELSE /\ filename' = argv[1]
              /\ iters' = IF Len(argv) + 1 >= 3 THEN StrToNum(argv[2]) ELSE DefaultIters
              /\ pc' = "load"
              /\ UNCHANGED <<stderr, exit_code>>
    /\ UNCHANGED <<argv, disk, json, documents, it, stdout, open_failed, iter,
                   docs, total_docs, total_time, run_times, report, ub, loads,
                   warmups, parsers>>
    /\ UNCHANGED filterVars

\* padded_string::load(filename), once, before any pass
TLoad ==
    /\ pc = "load"
    /\ IF filename = FileD
         THEN /\ json' = disk
              /\ loads' = loads + 1
              /\ stderr' = Append(stderr, "File loaded")
              /\ pc' = "warmup"
              /\ UNCHANGED exit_code
         ELSE /\ stderr' = Append(stderr, "Load error")
              /\ exit_code' = 1
              /\ pc' = "exit"
              /\ UNCHANGED <<json, loads>>
    /\ UNCHANGED <<argv, disk, filename, documents, it, stdout, open_failed,
                   iters, iter, docs, total_docs, total_time, run_times, report,
                   ub, warmups, parsers>>
    /\ UNCHANGED filterVars

\* the warm-up block: a parser and a stream of its own, every document
\* visited, nothing counted or timed; an iterate_many error skips the loop
TWarmup ==
    /\ pc = "warmup"
    /\ parsers' = parsers + 1
    /\ warmups' = warmups + 1
    /\ \E r \in OpenResults :
         IF r = "SUCCESS"
           THEN /\ documents' = Frame(json, 0)
                /\ it' = Len(Frame(json, 0))
                /\ UNCHANGED open_failed
           ELSE /\ documents' = <<>>
                /\ it' = 0
                /\ open_failed' = TRUE
    /\ stderr' = Append(stderr, "Running timed iterations")
    /\ iter' = 0
    /\ total_time' = 0
    /\ total_docs' = 0
    /\ run_times' = <<>>
    /\ pc' = "timed"
    /\ UNCHANGED <<argv, disk, filename, json, stdout, exit_code, iters, docs,
                   report, ub, loads>>
    /\ UNCHANGED filterVars

\* a timed pass that keeps the stream and the counter of the pass before it
TPassBeginReuse ==
    /\ pc = "timed"
    /\ iter < iters
    /\ parsers' = parsers + 1
    /\ \E r \in OpenResults :
         IF r = "SUCCESS"
           THEN UNCHANGED <<documents, it, open_failed>>
           ELSE /\ documents' = <<>>
                /\ it' = 0
                /\ open_failed' = TRUE
    /\ pc' = "pass"
    /\ UNCHANGED <<argv, disk, filename, json, stdout, stderr, exit_code, iters,
                   iter, docs, total_docs, total_time, run_times, report, ub,
                   loads, warmups>>
    /\ UNCHANGED filterVars

\* iter < iters: a timed pass starts with a new parser, a new stream over
\* json and docs = 0; an iterate_many error skips the loop of the pass
TPassBegin ==
    /\ pc = "timed"
    /\ iter < iters
    /\ parsers' = parsers + 1
    /\ docs' = 0
    /\ \E r \in OpenResults :
         IF r = "SUCCESS"
           THEN /\ documents' = Frame(json, 0)
                /\ it' = 0
                /\ UNCHANGED open_failed
           ELSE /\ documents' = <<>>
                /\ it' = 0
                /\ open_failed' = TRUE
    /\ pc' = "pass"
    /\ UNCHANGED <<argv, disk, filename, json, stdout, stderr, exit_code, iters,
                   iter, total_docs, total_time, run_times, report, ub, loads,
                   warmups>>
    /\ UNCHANGED filterVars

\* one document of a timed pass: the lookup of "__z__" is evaluated and its
\* result discarded, then ++docs
TDocStep ==
    /\ pc = "pass"
    /\ it < Len(documents)
    /\ Lookup(json, documents[it + 1], KeyZ).err \in
         {"SUCCESS", "NO_SUCH_FIELD", "INCORRECT_TYPE", "TAPE_ERROR"}
    /\ docs' = docs + 1
    /\ it' = it + 1
    /\ UNCHANGED <<pc, argv, disk, filename, json, documents, stdout, stderr,
                   exit_code, open_failed, iters, iter, total_docs, total_time,
                   run_times, report, ub, loads, warmups, parsers>>
    /\ UNCHANGED filterVars

\* the end of a timed pass: the elapsed time is recorded, ++iter
TPassEnd ==
    /\ pc = "pass"
    /\ it = Len(documents)
    /\ \E elapsed \in 1..MaxElapsed :
         /\ run_times' = Append(run_times, elapsed)
         /\ total_time' = total_time + elapsed
    /\ total_docs' = total_docs + docs
    /\ iter' = iter + 1
    /\ pc' = "timed"
    /\ UNCHANGED <<argv, disk, filename, json, documents, it, stdout, stderr,
                   exit_code, open_failed, iters, docs, report, ub, loads,
                   warmups, parsers>>
    /\ UNCHANGED filterVars

\* total_docs / (size_t)iters for iters # 0: a negative iters converts to
\* 2^64 + iters, which is larger than any total_docs
SizeDiv(n, d) == IF d > 0 THEN n \div d ELSE 0

\* the machine-readable line on standard output; the two floating-point
\* fields are kept in report and stand as "best" here
SummaryLine(dpi) ==
    <<"b", "e", "s", "t", SP, "d", "o", "c", "s", "=">> \o Decimal(dpi) \o <<NL>>

\* iter >= iters: the report. run_times[0] is read even when run_times is
\* empty, and total_docs is divided by (size_t)iters even when iters is 0:
\* both are undefined behaviour, which ends the process by a signal or goes
\* on with whatever value was read
TReport ==
    /\ pc = "timed"
    /\ iter >= iters
    /\ \/ /\ run_times # <<>>
          /\ report' = [best |-> Min(Range(run_times)),
                        avg_num |-> total_time, avg_den |-> iters,
                        docs_per_iter |-> SizeDiv(total_docs, iters)]
          /\ stdout' = stdout \o SummaryLine(SizeDiv(total_docs, iters))
          /\ stderr' = Append(stderr, "report")
          /\ exit_code' = 0
          /\ pc' = "done"
          /\ UNCHANGED ub
       \/ /\ run_times = <<>>
          /\ ub' = TRUE
          /\ exit_code' = 139
          /\ pc' = "crashed"
          /\ UNCHANGED <<report, stdout, stderr>>
       \/ /\ run_times = <<>>
          /\ ub' = TRUE
          /\ \E garbage \in 0..MaxElapsed :
             \E quot \in (IF iters = 0 THEN 0..1 ELSE {SizeDiv(total_docs, iters)}) :
               /\ report' = [best |-> garbage,
                             avg_num |-> total_time, avg_den |-> iters,
                             docs_per_iter |-> quot]
               /\ stdout' = stdout \o SummaryLine(quot)
          /\ stderr' = Append(stderr, "report")
          /\ exit_code' = 0
          /\ pc' = "done"
    /\ UNCHANGED <<argv, disk, filename, json, documents, it, open_failed, iters,
                   iter, docs, total_docs, total_time, run_times, loads, warmups,
                   parsers>>
    /\ UNCHANGED filterVars

\* the tokenizer tool started on a command line, with a file on disk
InitTok ==
    /\ InitCommon
    /\ pc = "start"
    /\ json = <<>>
    /\ argv \in TokArgvs
    /\ disk \in TokFiles

NextTok ==
    \/ TStart
    \/ TLoad
    \/ TWarmup
    \/ TPassBegin
    \/ TDocStep
    \/ TPassEnd
    \/ TReport

SpecTok == InitTok /\ [][NextTok]_vars

-----------------------------------------------------------------------------
(* Vocabulary of the properties, defined from the bytes of the input and   *)
(* independently of the program's own variables.                           *)

\* offsets at which a maximal run of non-newline bytes starts
LineStarts(buf) ==
    {p \in 0..(Len(buf) - 1) : buf[p + 1] # NL /\ (p = 0 \/ buf[p] = NL)}

\* start of the line that holds offset o
LineStartOf(buf, o) ==
    CHOOSE p \in 0..o :
      /\ p = 0 \/ buf[p] = NL
      /\ \A q \in (p + 1)..o : buf[q] # NL

\* end (exclusive) of the line that holds offset o
LineEndOf(buf, o) == Find(buf, o, NL)

\* the field lookup of document d is a hit above the threshold
Hit(d) ==
    LET r == Lookup(json, d, field) IN r.err = "SUCCESS" /\ r.val > threshold

\* number of hits among the first n documents of the stream
HitsAmong(n) == Cardinality({k \in 1..n : Hit(documents[k])})

\* the record of document d followed by a newline: the bytes of the line(s)
\* the document lies on
RecordLine(d) ==
    Slice(json, LineStartOf(json, d.start), LineEndOf(json, d.end - 1)) \o <<NL>>

\* the records of the matching documents, in stream order
RECURSIVE MatchingRecords(_)
MatchingRecords(n) ==
    IF n = 0 THEN <<>>
    ELSE MatchingRecords(n - 1)
           \o (IF Hit(documents[n]) THEN RecordLine(documents[n]) ELSE <<>>)

\* the bytes of line k (0-based) of the line index, newline added, for each
\* matching document k among the first n that the line index has a line for
RECURSIVE PairedLines(_)
PairedLines(n) ==
    IF n = 0 THEN <<>>
    ELSE PairedLines(n - 1)
           \o (IF Hit(documents[n]) /\ n - 1 < Len(line_idx)
                 THEN Slice(json, line_idx[n][1], line_idx[n][2]) \o <<NL>>
                 ELSE <<>>)

\* number of newline bytes, i.e. of lines, in a byte sequence
LineCount(bytes) == Cardinality({k \in 1..Len(bytes) : bytes[k] = NL})

\* every non-empty line of the buffer is exactly one document of the stream
OneDocPerLine ==
    /\ \A p \in LineStarts(json) :
         Cardinality({k \in 1..Len(documents) :
                        /\ p <= documents[k].start
                        /\ documents[k].end <= LineEndOf(json, p)}) = 1
    /\ \A k \in 1..Len(documents) :
         LineEndOf(json, documents[k].start) >= documents[k].end

\* argv[i] is consumed as the value of a preceding --field or --gt
RECURSIVE IsOptionValue(_)
IsOptionValue(i) ==
    /\ i > 1
    /\ argv[i - 1] \in {ArgField, ArgGt}
    /\ ~IsOptionValue(i - 1)

\* flag f is given on the command line (and not as another option's value)
FlagGiven(f) == \E i \in 1..Len(argv) : argv[i] = f /\ ~IsOptionValue(i)

EmitMode == ~count_only /\ ~quiet

InLoopOrAfter == pc \in {"loop", "report", "done"}

-----------------------------------------------------------------------------
(* C1. build_line_index returns exactly one (start, end) pair per maximal  *)
(* non-empty run of non-newline bytes, in file order: as many pairs as     *)
(* non-empty lines, start < end <= L, no newline inside a pair, each pair  *)
(* maximal, consecutive pairs with end_i < start_(i+1), and a trailing line *)
(* without a final newline emitted with end = L.                           *)
C1_LineIndexExact ==
    pc = "open" =>
      LET L == Len(json)
          n == Len(line_idx)
      IN  /\ n = Cardinality(LineStarts(json))
          /\ \A k \in 1..n :
               LET s == line_idx[k][1]
                   e == line_idx[k][2]
               IN  /\ 0 <= s /\ s < e /\ e <= L
                   /\ \A o \in s..(e - 1) : json[o + 1] # NL
                   /\ s = 0 \/ json[s] = NL
                   /\ e = L \/ json[e + 1] = NL
          /\ \A k \in 1..(n - 1) : line_idx[k][2] < line_idx[k + 1][1]
          /\ (L > 0 /\ json[L] # NL) => (n > 0 /\ line_idx[n][2] = L)

\* a buffer with a leading blank line, two consecutive newlines and a last
\* line without newline, indexed
C1_Witness ==
    /\ pc = "open"
    /\ json = <<NL, "a", NL, NL, "{">>
    /\ line_idx = <<<<1, 2>>, <<4, 5>>>>

(* C2. In emit mode (neither --count nor --quiet) standard output is       *)
(* exactly the records of the matching documents, each followed by one     *)
(* newline, in file order, each record being the matching document's own.  *)
C2_EmitsOwnRecords ==
    (pc = "done" /\ EmitMode) => stdout = MatchingRecords(Len(documents))

(* C3. The integer --count prints (the number of matching documents) is    *)
(* the number of lines the run without --count and --quiet writes to       *)
(* standard output, whatever the relation of document and line counts.     *)
C3_CountEqualsEmittedLines ==
    (pc = "done" /\ EmitMode) => LineCount(stdout) = HitsAmong(Len(documents))

(* C4. At the end of a filter run matched is the number of yielded         *)
(* documents whose lookup succeeded with a value strictly above the        *)
(* threshold; ages 25, 35, 30 with threshold 30 give matched = 1 and the   *)
(* age-35 record alone as output.                                          *)
C4_MatchedCountsStrictHits ==
    /\ pc \in {"report", "done"} => matched = HitsAmong(Len(documents))
    /\ (pc = "done" /\ json = ScenarioFile /\ field = KeyAge
          /\ threshold = DefaultThreshold) =>
         /\ matched = 1
         /\ EmitMode => stdout = Doc(KeyAge, <<"3", "5">>) \o <<NL>>
         /\ count_only => stdout = <<"1", NL>>

C4_Witness ==
    /\ pc = "done"
    /\ json = ScenarioFile
    /\ argv = <<FileD>>
    /\ total = 3
    /\ matched = 1
    /\ stdout = Doc(KeyAge, <<"3", "5">>) \o <<NL>>

(* C5 as stated. Whenever --quiet is given the run writes nothing to       *)
(* standard output, neither record bytes nor a count.                      *)
C5_QuietWritesNothing ==
    FlagGiven(ArgQuiet) => stdout = <<>>

(* C5 amended. The three output modes exclude each other with --count     *)
(* taking precedence: with --count (with or without --quiet) standard      *)
(* output is exactly the count line; with --quiet and no --count nothing   *)
(* is written; with neither flag standard output is the accumulated record *)
(* bytes and no count line; nothing is written before the loop has ended.  *)
C5_ModesExclusive ==
    /\ pc \notin {"report", "done"} => stdout = <<>>
    /\ pc \in {"report", "done"} =>
         /\ FlagGiven(ArgCount) =>
              /\ stdout = Decimal(HitsAmong(Len(documents))) \o <<NL>>
              /\ out_buf = <<>>
         /\ (FlagGiven(ArgQuiet) /\ ~FlagGiven(ArgCount)) =>
              /\ stdout = <<>>
              /\ out_buf = <<>>
         /\ (~FlagGiven(ArgQuiet) /\ ~FlagGiven(ArgCount)) =>
              stdout = PairedLines(Len(documents))

\* --quiet and --count together: the count line is printed
C5_Witness ==
    /\ pc = "done"
    /\ FlagGiven(ArgQuiet)
    /\ FlagGiven(ArgCount)
    /\ matched = 2
    /\ stdout = <<"2", NL>>

(* C9. A document whose lookup fails is a miss for that document only: it  *)
(* is counted in total and not in matched, the documents after it are      *)
(* still evaluated with the same predicate, the loop runs to the end of    *)
(* the stream and the run ends with exit code 0.                           *)
C9_LookupFailureIsLocalMiss ==
    InLoopOrAfter =>
      /\ total = it
      /\ matched = HitsAmong(it)
      /\ pc \in {"report", "done"} => total = Len(documents)
      /\ pc = "done" => exit_code = 0

\* a malformed document and a document without the field, then a hit
C9_Witness ==
    /\ pc = "done"
    /\ exit_code = 0
    /\ Len(documents) = 3
    /\ Lookup(json, documents[1], field).err = "TAPE_ERROR"
    /\ Lookup(json, documents[2], field).err = "NO_SUCH_FIELD"
    /\ Hit(documents[3])
    /\ total = 3
    /\ matched = 1

(* C10. Throughout the filter loop line_no equals total, so the i-th       *)
(* document is paired with LineRange[i]; the line index is never read at   *)
(* or past its length; and when every non-empty line is exactly one        *)
(* document the final total is the length of the line index.               *)
C10_LinePairing ==
    /\ line_no = total
    /\ ~oob_read
    /\ (InLoopOrAfter /\ EmitMode) => out_buf = PairedLines(it)
    /\ (pc = "done" /\ OneDocPerLine) => total = Len(line_idx)

\* a run over more documents than lines, the last of them matching
C10_Witness ==
    /\ pc = "done"
    /\ EmitMode
    /\ total = 3
    /\ Len(line_idx) = 2
    /\ Hit(documents[3])
    /\ matched = 3
    /\ LineCount(out_buf) = 2

-----------------------------------------------------------------------------
(* Properties of the tokenizer tool.                                       *)

Max(a, b) == IF a >= b THEN a ELSE b

Ended == pc \in {"done", "exit", "crashed"}

\* one of the failures that must end a run with exit code 1
SetupFailure == Len(argv) < 1 \/ argv[1] # FileD \/ open_failed

(* C6. A missing file name, a file-load failure or an iterate_many error   *)
(* ends the process with exit code 1 and a diagnostic on standard error,   *)
(* before any timed pass is reported and with nothing on standard output;  *)
(* exit code 0 is returned only when none of these failures occurred.      *)
(* (Stated for the runs that execute no undefined behaviour.)              *)
C6_SetupFailureExitsOne ==
    (Ended /\ ~ub) =>
      /\ SetupFailure =>
           /\ exit_code = 1
           /\ stderr # <<>>
           /\ stdout = <<>>
           /\ "report" \notin Range(stderr)
      /\ exit_code = 0 => ~SetupFailure

C8_ReportWellDefined ==
    pc \in {"done", "crashed"} =>
      /\ ~ub
      /\ pc = "done"
      /\ run_times # <<>>
      /\ iters # 0
      /\ report.best = Min(Range(run_times))
      /\ report.avg_num = total_time /\ report.avg_den = iters
      /\ report.docs_per_iter = total_docs \div iters

=============================================================================
